---- MODULE Spec2Model ----
(***************************************************************************)
(* Model of bin/clean.js, the orphaned-asset cleanup task, and of          *)
(* src/index.ts, the Vite plugin.  A run of main() of the script is a      *)
(* sequence of steps over a file system: resolve the manifest path, read   *)
(* and flatten the manifest, list the assets directory and detect the      *)
(* orphans, then report or unlink every orphan (Spec).  The plugin is a    *)
(* call of srylius(config) (SpecConfig) and the hooks the host calls on    *)
(* the plugin instances of one dev-server process (SpecServe).  Strings    *)
(* are TLA+ strings; the string functions of the code are computed on      *)
(* them.                                                                   *)
(***************************************************************************)
EXTENDS Integers, Sequences, FiniteSets, TLC

----------------------------------------------------------------------------
(* Bounds of the model. *)

\* Number of invocations of the script in one behaviour.
MaxRuns == 2

\* Largest number of entries placed in an assets directory.
MaxEntries == 3

----------------------------------------------------------------------------
(* Strings. *)

\* String.prototype.startsWith
StartsWith(s, p) == Len(s) >= Len(p) /\ SubSeq(s, 1, Len(p)) = p

\* A plausible slip: the suffix is compared at the wrong end of the string.
EndsWithAtStart(s, p) == Len(s) >= Len(p) /\ SubSeq(s, 1, Len(p)) = p

\* String.prototype.endsWith
EndsWith(s, p) == Len(s) >= Len(p) /\ SubSeq(s, Len(s) - Len(p) + 1, Len(s)) = p

\* String.prototype.substring(from), from counted from 0
Substring(s, from) == SubSeq(s, from + 1, Len(s))

\* Position of the last "/" of s, 0 when there is none.
LastSlash(s) ==
    LET at == {i \in 1..Len(s) : SubSeq(s, i, i) = "/"}
    IN  IF at = {} THEN 0 ELSE CHOOSE i \in at : \A j \in at : j <= i

\* path.dirname, for paths without trailing slashes
dirname(p) ==
    LET k == LastSlash(p)
    IN  IF k = 0 THEN "." ELSE IF k = 1 THEN "/" ELSE SubSeq(p, 1, k - 1)

\* The last segment of a path.
Basename(p) == SubSeq(p, LastSlash(p) + 1, Len(p))

----------------------------------------------------------------------------
(* Command line. *)

Undefined == [defined |-> FALSE, value |-> ""]

\* argument(name): the text after the first "--name=" of argv, or undefined.
argument(av, name) ==
    LET prefix == "--" \o name \o "="
        hits   == {i \in 1..Len(av) : StartsWith(av[i], prefix)}
    IN  IF hits = {} THEN Undefined
        ELSE LET index == CHOOSE i \in hits : \A j \in hits : i <= j
             IN  [defined |-> TRUE, value |-> Substring(av[index], Len(prefix))]

\* option(name): argv includes "--name".
option(av, name) == \E i \in 1..Len(av) : av[i] = "--" \o name

\* A value is truthy when it is defined and not the empty string.
Truthy(v) == v.defined /\ v.value # ""

\* A plausible slip: --quiet is not looked at.
InfoAlways(av, line) == <<[stream |-> "stdout", line |-> line]>>

\* info(line): console.log, or nothing under --quiet.
info(av, line) ==
    IF option(av, "quiet") THEN <<>> ELSE <<[stream |-> "stdout", line |-> line]>>

\* error(line): console.error, or nothing under --quiet.
error(av, line) ==
    IF option(av, "quiet") THEN <<>> ELSE <<[stream |-> "stderr", line |-> line]>>

SsrManifestPaths == <<"./bootstrap/ssr/ssr-manifest.json", "./bootstrap/ssr/manifest.json">>

DefaultManifestPaths == <<"./public/bundle/manifest.json">>

\* A plausible slip: the defaults are still tried after an explicit path.
ManifestPathsKeepDefaults(av) ==
    (IF Truthy(argument(av, "manifest")) THEN <<argument(av, "manifest").value>> ELSE <<>>)
        \o (IF option(av, "ssr") THEN SsrManifestPaths ELSE DefaultManifestPaths)

\* The candidate manifest paths, in the order they are tried.
ManifestPaths(av) ==
    IF Truthy(argument(av, "manifest"))
    THEN <<argument(av, "manifest").value>>
    ELSE IF option(av, "ssr") THEN SsrManifestPaths ELSE DefaultManifestPaths

----------------------------------------------------------------------------
(* File system: a function from the path of every existing directory to    *)
(* the sequence of its entries, in the order readdirSync lists them.  An   *)
(* entry is [name, kind, locked, text]: kind is "file", "dir" or "other"   *)
(* (a symbolic link, a socket, ...), locked says that unlinking it fails,  *)
(* text is the content of a plain file.                                    *)

Entry(n, k, l, t) == [name |-> n, kind |-> k, locked |-> l, text |-> t]

\* The positions of the entry named by path p in its directory.
Lookup(f, p) ==
    IF dirname(p) \in DOMAIN f
    THEN {i \in 1..Len(f[dirname(p)]) : f[dirname(p)][i].name = Basename(p)}
    ELSE {}

\* fs.existsSync
existsSync(f, p) == p # "" /\ (p \in DOMAIN f \/ Lookup(f, p) # {})

\* A plausible slip: the first candidate is used when none exists.
FindExistingOrFirst(f, paths) ==
    LET hits == {i \in 1..Len(paths) : existsSync(f, paths[i])}
    IN  IF hits = {} THEN 1 ELSE CHOOSE i \in hits : \A j \in hits : i <= j

\* Array.prototype.find(existsSync): the index of the first candidate that
\* exists, 0 when none does.
FindExisting(f, paths) ==
    LET hits == {i \in 1..Len(paths) : existsSync(f, paths[i])}
    IN  IF hits = {} THEN 0 ELSE CHOOSE i \in hits : \A j \in hits : i <= j

\* The existsSync calls made by find: it stops at the first hit.
Probes(f, paths) ==
    LET k == FindExisting(f, paths)
        n == IF k = 0 THEN Len(paths) ELSE k
    IN  [i \in 1..n |-> [op |-> "existsSync", path |-> paths[i]]]

\* fs.readFileSync: the text of a plain file, or a throw.
readFileSync(f, p) ==
    LET at == Lookup(f, p)
    IN  IF at = {} THEN [ok |-> FALSE, text |-> ""]
        ELSE LET e == f[dirname(p)][CHOOSE i \in at : TRUE]
             IN  IF e.kind = "file" THEN [ok |-> TRUE, text |-> e.text]
                 ELSE [ok |-> FALSE, text |-> ""]

\* fs.readdirSync(path, {withFileTypes: true}): the entries, or a throw.
readdirSync(f, p) ==
    IF p \in DOMAIN f THEN [ok |-> TRUE, entries |-> f[p]]
    ELSE [ok |-> FALSE, entries |-> <<>>]

\* Whether fs.unlinkSync(p) succeeds: the entry exists, is no directory and
\* is not locked.
CanUnlink(f, p) ==
    \E i \in Lookup(f, p) : f[dirname(p)][i].kind # "dir" /\ ~f[dirname(p)][i].locked

\* A plausible slip: nothing is removed.
UnlinkSyncNothing(f, p) == f

\* A plausible slip: the directory is emptied.
UnlinkSyncDirectory(f, p) ==
    IF CanUnlink(f, p) THEN [f EXCEPT ![dirname(p)] = <<>>] ELSE f

\* The file system after fs.unlinkSync(p): without the entry when the call
\* succeeds, unchanged when it throws.
unlinkSync(f, p) ==
    IF CanUnlink(f, p)
    THEN [f EXCEPT ![dirname(p)] = SelectSeq(@, LAMBDA e : e.name # Basename(p))]
    ELSE f

----------------------------------------------------------------------------
(* Manifests.  A parsed manifest is the sequence of its [key, value] pairs *)
(* in Object.keys order; a value is an array of strings or an object with  *)
(* an optional file and an optional css array.                             *)

Arr(items) == [type |-> "array", items |-> items, hasFile |-> FALSE, file |-> "",
               hasCss |-> FALSE, css |-> <<>>]

Obj(file, css) == [type |-> "object", items |-> <<>>, hasFile |-> TRUE, file |-> file,
                   hasCss |-> TRUE, css |-> css]

ObjNoCss(file) == [type |-> "object", items |-> <<>>, hasFile |-> TRUE, file |-> file,
                   hasCss |-> FALSE, css |-> <<>>]

\* The manifest texts of the model.
ManifestTexts == {"css", "ssr", "objectFirst", "arrayFirst", "keep", "invalid"}

\* JSON.parse of a manifest text: the parsed manifest, or a throw.
JSONparse(text) ==
    CASE text = "css" ->
           [ok |-> TRUE, value |-> <<[key |-> "a.js", value |-> Obj("assets/a", <<"deep/dir/ba">>)],
                                     [key |-> "c.js", value |-> ObjNoCss("xc")]>>]
      [] text = "ssr" ->
           [ok |-> TRUE, value |-> <<[key |-> "entry", value |-> Arr(<<"assets/xa", "ba">>)]>>]
      [] text = "objectFirst" ->
           [ok |-> TRUE, value |-> <<[key |-> "a.js", value |-> ObjNoCss("assets/a")],
                                     [key |-> "b.js", value |-> Arr(<<"assets/ba">>)]>>]
      [] text = "arrayFirst" ->
           [ok |-> TRUE, value |-> <<[key |-> "entry", value |-> Arr(<<"assets/a">>)],
                                     [key |-> "b.js", value |-> Obj("assets/ba", <<"assets/c">>)]>>]
      [] text = "keep" ->
           [ok |-> TRUE, value |-> <<[key |-> "entry", value |-> Arr(<<"ssr/manifest.json">>)],
                                     [key |-> "other", value |-> Arr(<<"assets/c", "assets/ba">>)]>>]
      [] OTHER -> [ok |-> FALSE, value |-> <<>>]

\* An element of the flattened asset list: a string, or a value that is no
\* string (undefined, an object) and has no endsWith.
Str(s) == [string |-> TRUE, s |-> s]
NonString == [string |-> FALSE, s |-> ""]

Strs(items) == [i \in 1..Len(items) |-> Str(items[i])]

RECURSIVE Flatten(_)
\* The concatenation of a sequence of sequences.
Flatten(seqs) == IF seqs = <<>> THEN <<>> ELSE Head(seqs) \o Flatten(Tail(seqs))

\* key => manifest[key]: an array is flattened, any other value is kept.
SsrAssetsOf(v) == IF v.type = "array" THEN Strs(v.items) ELSE <<NonString>>

\* key => [...manifest[key].css ?? [], manifest[key].file]
FileAssetsOf(v) ==
    (IF v.hasCss THEN Strs(v.css) ELSE <<>>)
        \o <<IF v.hasFile THEN Str(v.file) ELSE NonString>>

\* manifestFiles.flatMap(key => manifest[key]) over the keys in order
SsrAssets(manifest) == Flatten([i \in 1..Len(manifest) |-> SsrAssetsOf(manifest[i].value)])

\* manifestFiles.flatMap(key => [...css ?? [], file]) over the keys in order
FileAssets(manifest) == Flatten([i \in 1..Len(manifest) |-> FileAssetsOf(manifest[i].value)])

\* A plausible slip: the shape is probed on the last key.
IsSsrLastKey(manifest) == manifest # <<>> /\ manifest[Len(manifest)].value.type = "array"

\* Array.isArray(manifest[manifestFiles[0]])
IsSsr(manifest) == manifest # <<>> /\ manifest[1].value.type = "array"

\* The referenced asset list.
ManifestAssets(manifest) ==
    IF IsSsr(manifest) THEN SsrAssets(manifest) ELSE FileAssets(manifest)

----------------------------------------------------------------------------
(* Orphan detection. *)

\* manifestAssets.findIndex(asset => asset.endsWith(`/${name}`)): the index
\* found (0 for -1), or a throw at the first element without endsWith that
\* is visited.
findIndex(assets, name) ==
    LET stops == {i \in 1..Len(assets) :
                     ~assets[i].string \/ EndsWith(assets[i].s, "/" \o name)}
    IN  IF stops = {} THEN [ok |-> TRUE, index |-> 0]
        ELSE LET i == CHOOSE k \in stops : \A j \in stops : k <= j
             IN  IF assets[i].string THEN [ok |-> TRUE, index |-> i]
                 ELSE [ok |-> FALSE, index |-> 0]

\* A plausible slip: every entry is kept, whatever its kind.
IsFileAnyKind(e) == TRUE

\* Dirent.isFile()
isFile(e) == e.kind = "file"

\* existingAssets.filter(isFile).filter(no asset ends with "/" + name)
OrphanedAssets(existing, assets) ==
    LET files == SelectSeq(existing, isFile)
    IN  IF \E i \in 1..Len(files) : ~findIndex(assets, files[i].name).ok
        THEN [ok |-> FALSE, orphans |-> <<>>]
        ELSE [ok |-> TRUE,
              orphans |-> SelectSeq(files, LAMBDA e : findIndex(assets, e.name).index = 0)]

----------------------------------------------------------------------------
(* State. *)

VARIABLES
    argv,               \* process.argv
    fs,                 \* the file system
    pc,                 \* the position of main: "find", "read", "list", "remove", "done"
    status,             \* "running", "exit0", "exit1", or "uncaught" (an uncaught throw)
    out,                \* the lines written through info and error, in order
    calls,              \* the file system calls of this run, in order
    foundManifestPath,
    isSsr,
    manifestAssets,
    assetsPath,
    existingAssets,
    orphanedAssets,
    index,              \* the position of forEach in orphanedAssets
    run,                \* the number of this invocation
    fsStart,            \* the file system when this invocation started
    prev,               \* what the previous invocation did
    config,             \* src/index.ts: the argument of srylius(config)
    pluginConfig,       \* what resolvePluginConfig did inside that call
    plugins,            \* what srylius(config) did: the plugins, or the throw
    instances,          \* the closures of resolveSryliusPlugin, one per plugin instance
    exitHandlersBound,  \* the module-level flag of src/index.ts:116
    handlers,           \* the listeners registered on process
    process,            \* the dev-server process: running or exited, and why
    hotFiles,           \* the hot files on disk and their contents
    transformed         \* what the last call of the transform hook did

\* The state of the cleanup script.
cleanVars == <<argv, fs, pc, status, out, calls, foundManifestPath, isSsr, manifestAssets,
               assetsPath, existingAssets, orphanedAssets, index, run, fsStart, prev>>

\* The state of one call of srylius(config).
configVars == <<config, pluginConfig, plugins>>

\* The state of the dev-server process that hosts the plugin.
serveVars == <<instances, exitHandlersBound, handlers, process, hotFiles, transformed>>

pluginVars == <<configVars, serveVars>>

vars == <<cleanVars, pluginVars>>

locals == <<foundManifestPath, isSsr, manifestAssets, assetsPath, existingAssets,
            orphanedAssets, index>>

----------------------------------------------------------------------------
(* The command lines and file systems the model starts from. *)

PublicDir == "./public/bundle"

SsrDir == "./bootstrap/ssr"

ExplicitManifest == "--manifest=./bootstrap/ssr/manifest.json"

ExplicitAssets == "--assets=./bootstrap/ssr"

If(b, e) == IF b THEN <<e>> ELSE <<>>

\* The first invocation is never quiet: InvokeQuiet adds --quiet.
Argvs ==
    {<<"node", "clean.js">> \o If(s, "--ssr") \o If(d, "--dry-run")
            \o If(m, ExplicitManifest) \o If(a, ExplicitAssets) :
        s \in BOOLEAN, d \in BOOLEAN, m \in BOOLEAN, a \in BOOLEAN}
    \cup
    {<<"node", "clean.js">> \o If(s, "--ssr") \o <<"--manifest=">> : s \in BOOLEAN}
    \cup
    {<<"node", "clean.js", "--assets=">>}

\* The names of the entries of an assets directory, in name order.
Names == <<"a", "ba", "c", "d">>

Rank(n) == CHOOSE i \in 1..Len(Names) : Names[i] = n

EntryChoices ==
    {Entry("a", "file", FALSE, ""), Entry("a", "dir", FALSE, ""),
     Entry("ba", "file", FALSE, ""), Entry("ba", "file", TRUE, ""),
     Entry("c", "file", FALSE, ""), Entry("c", "other", FALSE, ""),
     Entry("d", "file", FALSE, "")}

\* The listings of an assets directory: at most MaxEntries entries, in
\* ascending or in descending name order.
Listings ==
    {l \in UNION {[1..n -> EntryChoices] : n \in 0..MaxEntries} :
        \/ \A i, j \in 1..Len(l) : i < j => Rank(l[i].name) < Rank(l[j].name)
        \/ \A i, j \in 1..Len(l) : i < j => Rank(l[i].name) > Rank(l[j].name)}

\* The text of ./bootstrap/ssr/manifest.json beside an ssr-manifest.json of text t.
SecondText(t) == IF t = "keep" THEN "ssr" ELSE t

FileSystem(pub, ssr1, ssr2, t, hasAssets, l) ==
    [d \in {PublicDir, SsrDir}
            \cup (IF hasAssets THEN {PublicDir \o "/assets", SsrDir \o "/assets"} ELSE {}) |->
        IF d = PublicDir
        THEN If(pub, Entry("manifest.json", "file", FALSE, t))
                \o If(hasAssets, Entry("assets", "dir", FALSE, ""))
        ELSE IF d = SsrDir
        THEN If(ssr1, Entry("ssr-manifest.json", "file", FALSE, t))
                \o If(ssr2, Entry("manifest.json", "file", FALSE, SecondText(t)))
                \o If(hasAssets, Entry("assets", "dir", FALSE, ""))
        ELSE l]

\* Every listing under every manifest text with all the manifests present,
\* every combination of present manifests under one listing, and file
\* systems without assets directories.
FileSystems ==
    {FileSystem(TRUE, TRUE, TRUE, t, TRUE, l) : t \in ManifestTexts, l \in Listings}
    \cup
    {FileSystem(pub, ssr1, ssr2, t, TRUE, <<Entry("a", "file", FALSE, ""), Entry("d", "file", FALSE, "")>>) :
        pub \in BOOLEAN, ssr1 \in BOOLEAN, ssr2 \in BOOLEAN, t \in {"css", "keep"}}
    \cup
    {FileSystem(pub, ssr1, ssr2, "css", FALSE, <<>>) :
        pub \in BOOLEAN, ssr1 \in BOOLEAN, ssr2 \in BOOLEAN}

NoPrev == [mode |-> "none", status |-> "running", out |-> <<>>, calls |-> <<>>,
           fs |-> << >>, found |-> "", orphans |-> <<>>]

\* The outcome of a call: not made yet, returned a value, or threw.
Pending == [state |-> "pending", error |-> "", value |-> <<>>]

Returned(v) == [state |-> "returned", error |-> "", value |-> v]

Thrown(e) == [state |-> "thrown", error |-> e, value |-> <<>>]

\* typeof config === 'undefined'
NoConfig == [kind |-> "undefined"]

\* No listener is registered on process.
NoHandlers == [exit |-> <<>>, SIGINT |-> 0, SIGTERM |-> 0, SIGHUP |-> 0]

NoTransform == [instance |-> 0, pieces |-> <<"">>, url |-> Undefined, result |-> Undefined]

\* srylius has not been called.
ConfigIdle ==
    /\ config = NoConfig
    /\ pluginConfig = Pending
    /\ plugins = Pending

\* No dev server is hosted: src/index.ts:116 and an empty process.
ServeIdle ==
    /\ instances = <<>>
    /\ exitHandlersBound = FALSE
    /\ handlers = NoHandlers
    /\ process = [state |-> "running", signal |-> "none"]
    /\ hotFiles = <<>>
    /\ transformed = NoTransform

\* The script runs in a process of its own: the plugin is not loaded.
Init ==
    /\ ConfigIdle
    /\ ServeIdle
    /\ argv \in Argvs
    /\ fs \in FileSystems
    /\ fsStart = fs
    /\ pc = "find"
    /\ status = "running"
    /\ out = <<>>
    /\ calls = <<>>
    /\ foundManifestPath = ""
    /\ isSsr = FALSE
    /\ manifestAssets = <<>>
    /\ assetsPath = ""
    /\ existingAssets = <<>>
    /\ orphanedAssets = <<>>
    /\ index = 0
    /\ run = 1
    /\ prev = NoPrev

----------------------------------------------------------------------------
(* The steps of main. *)

\* Lines 36-54: choose the manifest, or exit with code 1.
FindManifest ==
    /\ UNCHANGED pluginVars
    /\ pc = "find"
    /\ LET paths == ManifestPaths(argv)
           found == FindExisting(fs, paths)
       IN  /\ calls' = calls \o Probes(fs, paths)
           /\ IF found = 0
              THEN /\ out' = out \o error(argv, "Unable to find manifest file.")
                   /\ status' = "exit1"
                   /\ pc' = "done"
                   /\ UNCHANGED foundManifestPath
              ELSE /\ out' = out \o info(argv, "Reading manifest [" \o paths[found] \o "].")
                   /\ foundManifestPath' = paths[found]
                   /\ pc' = "read"
                   /\ UNCHANGED status
    /\ UNCHANGED <<argv, fs, isSsr, manifestAssets, assetsPath, existingAssets,
                   orphanedAssets, index, run, fsStart, prev>>

\* Lines 56-76: read and parse the manifest, probe its shape, flatten it.
ReadManifest ==
    /\ UNCHANGED pluginVars
    /\ pc = "read"
    /\ LET file     == readFileSync(fs, foundManifestPath)
           manifest == JSONparse(file.text)
       IN  /\ calls' = Append(calls, [op |-> "readFileSync", path |-> foundManifestPath])
           /\ IF file.ok /\ manifest.ok
              THEN /\ isSsr' = IsSsr(manifest.value)
                   /\ out' = out \o info(argv, IF IsSsr(manifest.value)
                                               THEN "SSR manifest found."
                                               ELSE "Non-SSR manifest found.")
                   /\ manifestAssets' = ManifestAssets(manifest.value)
                   /\ pc' = "list"
                   /\ UNCHANGED status
              ELSE /\ status' = "uncaught"
                   /\ pc' = "done"
                   /\ UNCHANGED <<isSsr, out, manifestAssets>>
    /\ UNCHANGED <<argv, fs, foundManifestPath, assetsPath, existingAssets,
                   orphanedAssets, index, run, fsStart, prev>>

\* A plausible slip: an explicit --assets is ignored.
AssetsPathIgnoringArgument(av, found) == dirname(found) \o "/assets"

\* Line 79: argument('assets') ?? dirname(foundManifestPath)+'/assets'
AssetsPath(av, found) ==
    IF argument(av, "assets").defined
    THEN argument(av, "assets").value
    ELSE dirname(found) \o "/assets"

\* A plausible slip: the singular line is used for every count.
CountLineAlwaysSingular(n) == "[" \o ToString(n) \o "] orphaned asset found."

\* Lines 91-97: the line that reports the number of orphans.
CountLine(n) ==
    IF n = 0 THEN "No ophaned assets found."
    ELSE IF n = 1 THEN "[" \o ToString(n) \o "] orphaned asset found."
    ELSE "[" \o ToString(n) \o "] orphaned assets found."

\* Lines 78-97: list the assets directory, detect the orphans, report their number.
ListAssets ==
    /\ UNCHANGED pluginVars
    /\ pc = "list"
    /\ LET path     == AssetsPath(argv, foundManifestPath)
           listing  == readdirSync(fs, path)
           detected == OrphanedAssets(listing.entries, manifestAssets)
       IN  /\ assetsPath' = path
           /\ calls' = Append(calls, [op |-> "readdirSync", path |-> path])
           /\ IF listing.ok /\ detected.ok
              THEN /\ existingAssets' = listing.entries
                   /\ orphanedAssets' = detected.orphans
                   /\ out' = out \o info(argv, "Verify assets in [" \o path \o "].")
                                 \o info(argv, CountLine(Len(detected.orphans)))
                   /\ IF detected.orphans = <<>>
                      THEN /\ status' = "exit0"
                           /\ pc' = "done"
                           /\ UNCHANGED index
                      ELSE /\ index' = 1
                           /\ pc' = "remove"
                           /\ UNCHANGED status
              ELSE /\ existingAssets' = listing.entries
                   /\ out' = out \o info(argv, "Verify assets in [" \o path \o "].")
                   /\ status' = "uncaught"
                   /\ pc' = "done"
                   /\ UNCHANGED <<orphanedAssets, index>>
    /\ UNCHANGED <<argv, fs, foundManifestPath, isSsr, manifestAssets, run, fsStart, prev>>

\* A plausible slip: the dry-run check of line 111 is inverted.
DeletesInverted(av) == option(av, "dry-run")

\* Line 111: unlinkSync is called when --dry-run is not given.
Deletes(av) == ~option(av, "dry-run")

\* Lines 105-108: the line that reports one orphan.
OrphanLine(av, path) ==
    IF option(av, "dry-run")
    THEN "Orphaned asset [" \o path \o "] would be removed."
    ELSE "Removing orphaned asset [" \o path \o "]."

\* A plausible slip: the throw of unlinkSync is caught and the loop goes on.
ThrowsCaught(av, f, path) == FALSE

\* Lines 111-114: unlinkSync is called and throws; nothing catches it.
Throws(av, f, path) == Deletes(av) /\ ~CanUnlink(f, path)

\* Lines 100-115: one turn of forEach: report the orphan, then unlink it
\* unless --dry-run; a throw of unlinkSync ends the run.
RemoveOrphan ==
    /\ UNCHANGED pluginVars
    /\ pc = "remove"
    /\ LET asset == orphanedAssets[index]
           path  == assetsPath \o "/" \o asset.name
           last  == index = Len(orphanedAssets)
       IN  /\ out' = out \o info(argv, OrphanLine(argv, path))
           /\ calls' = IF Deletes(argv)
                       THEN Append(calls, [op |-> "unlinkSync", path |-> path])
                       ELSE calls
           /\ fs' = IF Deletes(argv) THEN unlinkSync(fs, path) ELSE fs
           /\ IF Throws(argv, fs, path)
              THEN /\ status' = "uncaught"
                   /\ pc' = "done"
                   /\ UNCHANGED index
              ELSE IF last
                   THEN /\ status' = "exit0"
                        /\ pc' = "done"
                        /\ UNCHANGED index
                   ELSE /\ index' = index + 1
                        /\ UNCHANGED <<status, pc>>
    /\ UNCHANGED <<argv, foundManifestPath, isSsr, manifestAssets, assetsPath,
                   existingAssets, orphanedAssets, run, fsStart, prev>>

----------------------------------------------------------------------------
(* Invocations: line 120 runs main once per invocation of the script. *)

Finished(mode) ==
    [mode |-> mode, status |-> status, out |-> out, calls |-> calls,
     fs |-> fs, found |-> foundManifestPath, orphans |-> orphanedAssets]

Restart ==
    /\ pc' = "find"
    /\ status' = "running"
    /\ out' = <<>>
    /\ calls' = <<>>
    /\ foundManifestPath' = ""
    /\ isSsr' = FALSE
    /\ manifestAssets' = <<>>
    /\ assetsPath' = ""
    /\ existingAssets' = <<>>
    /\ orphanedAssets' = <<>>
    /\ index' = 0
    /\ run' = run + 1

\* The script is run again with the same arguments on the file system the
\* previous run left.
InvokeAgain ==
    /\ UNCHANGED pluginVars
    /\ pc = "done"
    /\ run < MaxRuns
    /\ prev' = Finished("again")
    /\ fsStart' = fs
    /\ UNCHANGED <<argv, fs>>
    /\ Restart

\* The script is run with --quiet added, on the file system the previous
\* run started from.
InvokeQuiet ==
    /\ UNCHANGED pluginVars
    /\ pc = "done"
    /\ run < MaxRuns
    /\ ~option(argv, "quiet")
    /\ prev' = Finished("quiet")
    /\ argv' = Append(argv, "--quiet")
    /\ fs' = fsStart
    /\ UNCHANGED fsStart
    /\ Restart

Next ==
    \/ FindManifest
    \/ ReadManifest
    \/ ListAssets
    \/ RemoveOrphan
    \/ InvokeAgain
    \/ InvokeQuiet

Spec == Init /\ [][Next]_vars

----------------------------------------------------------------------------
(* Vocabulary of the properties. *)

Range(q) == {q[i] : i \in 1..Len(q)}

\* The lines written so far.
OutLines == {out[i].line : i \in 1..Len(out)}

\* The paths unlinkSync was called with in this run.
Unlinked == {calls[i].path : i \in {k \in 1..Len(calls) : calls[k].op = "unlinkSync"}}

Called(op) == \E i \in 1..Len(calls) : calls[i].op = op

DryRun == \E i \in 1..Len(argv) : argv[i] = "--dry-run"

Quiet == \E i \in 1..Len(argv) : argv[i] = "--quiet"

\* The run has ended by returning from main.
Completed == pc = "done" /\ status = "exit0"

\* The orphans have been detected in this run.
Detected == pc = "remove" \/ Completed \/ (pc = "done" /\ Called("unlinkSync"))

\* Path a is d/name for some directory prefix d.
Protects(a, name) == \E n \in 0..Len(a) : a = SubSeq(a, 1, n) \o "/" \o name

\* The strings of the referenced asset list.
Referenced == {manifestAssets[k].s : k \in {i \in 1..Len(manifestAssets) : manifestAssets[i].string}}

PathOf(e) == assetsPath \o "/" \o e.name

WouldRemoveLine(e) == "Orphaned asset [" \o PathOf(e) \o "] would be removed."

RemovingLine(e) == "Removing orphaned asset [" \o PathOf(e) \o "]."

----------------------------------------------------------------------------
(* Properties. *)

\* C1: once the orphans are detected, an entry of the listing is an orphan
\* if and only if it is a plain file and no referenced path is d/name for
\* its name; every orphan is an entry of the listing.
C1_OrphanIffUnreferencedFile ==
    Detected =>
        /\ \A e \in Range(existingAssets) :
              e \in Range(orphanedAssets)
                  <=> (e.kind = "file" /\ \A a \in Referenced : ~Protects(a, e.name))
        /\ Range(orphanedAssets) \subseteq Range(existingAssets)

\* C1 witness: a listing with an orphan, a protected plain file and an
\* entry that is no plain file.
C1_Witness ==
    /\ Detected
    /\ orphanedAssets # <<>>
    /\ \E e \in Range(existingAssets) : e.kind = "file" /\ e \notin Range(orphanedAssets)
    /\ \E e \in Range(existingAssets) : e.kind # "file"

\* C2 as stated: under --dry-run unlinkSync is never called, the file
\* system stays as it was, and every orphan of a completed run has its
\* "would be removed" line and no "Removing" line.
C2_DryRunReportsEveryOrphan ==
    DryRun =>
        /\ ~Called("unlinkSync")
        /\ fs = fsStart
        /\ \A e \in Range(orphanedAssets) : RemovingLine(e) \notin OutLines
        /\ Completed => \A e \in Range(orphanedAssets) : WouldRemoveLine(e) \in OutLines

\* C2 amended: under --dry-run unlinkSync is never called, the file system
\* stays as it was and no orphan has a "Removing" line; every orphan of a
\* completed run has its "would be removed" line unless --quiet is given,
\* and then nothing is written.
C2_DryRunNeverDeletes ==
    DryRun =>
        /\ ~Called("unlinkSync")
        /\ fs = fsStart
        /\ \A e \in Range(orphanedAssets) : RemovingLine(e) \notin OutLines
        /\ (Completed /\ ~Quiet) =>
               \A e \in Range(orphanedAssets) : WouldRemoveLine(e) \in OutLines
        /\ Quiet => out = <<>>

\* C2 witness: a completed dry run that reported two orphans or more.
C2_Witness ==
    /\ DryRun
    /\ Completed
    /\ ~Quiet
    /\ Len(orphanedAssets) >= 2
    /\ \A e \in Range(orphanedAssets) : WouldRemoveLine(e) \in OutLines

\* The directories other than the assets directory are as the run found them.
OtherDirectoriesKept ==
    /\ DOMAIN fs = DOMAIN fsStart
    /\ \A d \in DOMAIN fs : d # assetsPath => fs[d] = fsStart[d]

\* The assets directory holds what it held before the run, less the orphans.
OnlyOrphansDeleted ==
    /\ OtherDirectoriesKept
    /\ fs[assetsPath] = SelectSeq(fsStart[assetsPath], LAMBDA e : e \notin Range(orphanedAssets))
    /\ \A e \in Range(fsStart[assetsPath]) :
          (e.kind # "file" \/ \E a \in Referenced : Protects(a, e.name))
              => e \in Range(fs[assetsPath])

\* C3 as stated: a completed run without --dry-run leaves the assets
\* directory as it was less exactly the orphans, and every orphan has its
\* "Removing" line.
C3_DeletesAndReportsEveryOrphan ==
    (Completed /\ ~DryRun) =>
        /\ OnlyOrphansDeleted
        /\ \A e \in Range(orphanedAssets) : RemovingLine(e) \in OutLines

\* C3 amended: a completed run without --dry-run leaves the assets
\* directory as it was less exactly the orphans; every orphan has its
\* "Removing" line unless --quiet is given, and then nothing is written.
C3_DeletesExactlyTheOrphans ==
    (Completed /\ ~DryRun) =>
        /\ OnlyOrphansDeleted
        /\ ~Quiet => \A e \in Range(orphanedAssets) : RemovingLine(e) \in OutLines
        /\ Quiet => out = <<>>

\* C3 witness: a completed run that deleted an orphan and kept a protected
\* plain file and an entry that is no plain file.
C3_Witness ==
    /\ Completed
    /\ ~DryRun
    /\ ~Quiet
    /\ orphanedAssets # <<>>
    /\ \E e \in Range(fs[assetsPath]) : e.kind = "file"
    /\ \E e \in Range(fs[assetsPath]) : e.kind # "file"
    /\ fs # fsStart

\* The manifest of this run has been read, parsed and flattened.
ReadDone == pc \in {"list", "remove"} \/ Called("readdirSync")

\* The parsed manifest of this run.
Manifest == JSONparse(readFileSync(fsStart, foundManifestPath).text).value

Values == {Manifest[i].value : i \in 1..Len(Manifest)}

\* C4: the shape is the shape of the value of the first key; under the
\* array shape the referenced strings are the items of the array values and
\* nothing of an object value; otherwise they are the file and the css
\* items of every value, a missing css giving nothing, and an array value
\* later in the manifest does not make the manifest server-rendering.
C4_ShapeFromFirstKey ==
    ReadDone =>
        /\ isSsr <=> Manifest[1].value.type = "array"
        /\ Manifest[1].value.type = "array" =>
              Referenced = UNION {Range(v.items) : v \in {w \in Values : w.type = "array"}}
        /\ Manifest[1].value.type # "array" =>
              Referenced = UNION {(IF v.hasFile THEN {v.file} ELSE {})
                                      \cup (IF v.hasCss THEN Range(v.css) ELSE {}) : v \in Values}

\* C4 witness: a manifest read as non-server-rendering although a later
\* value is an array.
C4_Witness ==
    /\ ReadDone
    /\ ~isSsr
    /\ \E v \in Values : v.type = "array"
    /\ Referenced = {"assets/a"}

\* Path p names an entry of a directory of file system f.
OnDisk(f, p) == \E d \in DOMAIN f : \E e \in Range(f[d]) : p = d \o "/" \o e.name

\* Command-line word w is --name= followed by a text.
Sets(w, name) == Len(w) >= Len(name) + 3 /\ SubSeq(w, 1, Len(name) + 3) = "--" \o name \o "="

Given(name) == \E i \in 1..Len(argv) : Sets(argv[i], name)

\* The text of the first --name=... of the command line, when there is one.
GivenText(name) ==
    LET i == CHOOSE k \in 1..Len(argv) :
                 Sets(argv[k], name) /\ \A j \in 1..(k - 1) : ~Sets(argv[j], name)
    IN  SubSeq(argv[i], Len(name) + 4, Len(argv[i]))

\* The default candidates, in order.
Defaults ==
    IF \E i \in 1..Len(argv) : argv[i] = "--ssr"
    THEN <<"./bootstrap/ssr/ssr-manifest.json", "./bootstrap/ssr/manifest.json">>
    ELSE <<"./public/bundle/manifest.json">>

\* The paths existsSync was called with in this run.
Probed == {calls[i].path : i \in {k \in 1..Len(calls) : calls[k].op = "existsSync"}}

\* C5: without --manifest and with no default candidate on disk, the run
\* ends with exit code 1 after probing only: nothing is read, listed or
\* unlinked and the file system is as it was.
C5_MissingManifestExits1 ==
    (pc # "find" /\ ~Given("manifest") /\ \A c \in Range(Defaults) : ~OnDisk(fsStart, c)) =>
        /\ pc = "done"
        /\ status = "exit1"
        /\ \A i \in 1..Len(calls) : calls[i].op = "existsSync"
        /\ fs = fsStart

\* C5 witness: the run exited with code 1 although a manifest that is no
\* candidate of this run is on disk.
C5_Witness ==
    /\ pc = "done"
    /\ status = "exit1"
    /\ ~Given("manifest")
    /\ \A c \in Range(Defaults) : ~OnDisk(fsStart, c)
    /\ \E d \in DOMAIN fsStart : \E e \in Range(fsStart[d]) : e.text # ""

\* The candidates of C6 resolve as stated: none on disk ends the run with
\* exit code 1, only candidates are probed, and the manifest chosen is the
\* first candidate on disk.
ResolvedFrom(candidates) ==
    /\ Probed \subseteq Range(candidates)
    /\ (\A c \in Range(candidates) : ~OnDisk(fsStart, c)) => (pc = "done" /\ status = "exit1")
    /\ \A i \in 1..Len(candidates) :
          (OnDisk(fsStart, candidates[i]) /\ \A j \in 1..(i - 1) : ~OnDisk(fsStart, candidates[j]))
              => foundManifestPath = candidates[i]

\* C6 as stated: once the manifest is resolved, the text of --manifest= is
\* the only candidate whenever the argument is given; otherwise the
\* candidates are the defaults.
C6_ExplicitPathIsOnlyCandidate ==
    pc # "find" =>
        ResolvedFrom(IF Given("manifest") THEN <<GivenText("manifest")>> ELSE Defaults)

\* C6 amended: the text of --manifest= is the only candidate when the
\* argument is given with a text that is not empty; with no --manifest= or
\* an empty one the candidates are the defaults.
C6_NonEmptyExplicitPathIsOnlyCandidate ==
    pc # "find" =>
        ResolvedFrom(IF Given("manifest") /\ GivenText("manifest") # ""
                     THEN <<GivenText("manifest")>>
                     ELSE Defaults)

\* C6 witness: --ssr and an explicit path that is absent, with the first
\* default on disk: the run exited with code 1 having probed one path.
C6_Witness ==
    /\ pc = "done"
    /\ status = "exit1"
    /\ \E i \in 1..Len(argv) : argv[i] = "--ssr"
    /\ Given("manifest")
    /\ GivenText("manifest") # ""
    /\ OnDisk(fsStart, "./bootstrap/ssr/ssr-manifest.json")
    /\ Cardinality(Probed) = 1

\* This run repeats a run without --dry-run that completed, with the same
\* arguments, on the file system that run left.
SecondRun == run > 1 /\ prev.mode = "again" /\ prev.status = "exit0" /\ ~DryRun

\* C7 as stated: the second of two runs without --dry-run finds no orphan.
C7_SecondRunFindsNoOrphan == SecondRun => orphanedAssets = <<>>

\* C7 amended: the second of two runs without --dry-run finds no orphan
\* and completes, provided the first run completed and the manifest it
\* read is still on disk, that is, was not one of the orphans it deleted.
C7_SecondRunFindsNoOrphanUnderSameManifest ==
    (SecondRun /\ OnDisk(fsStart, prev.found)) =>
        /\ orphanedAssets = <<>>
        /\ pc \in {"find", "read", "list", "done"}
        /\ pc = "done" => (status = "exit0" /\ fs = fsStart)
        /\ pc # "find" => foundManifestPath = prev.found

\* C7 witness: the second run completed after a first run that deleted
\* two orphans or more.
C7_Witness ==
    /\ SecondRun
    /\ OnDisk(fsStart, prev.found)
    /\ Len(prev.orphans) >= 2
    /\ Completed
    /\ Called("readdirSync")

\* The position in orphanedAssets of the orphan whose unlinkSync threw:
\* the first orphan that unlinkSync was called on and that is locked.
FailedAt ==
    {k \in 1..Len(orphanedAssets) :
        PathOf(orphanedAssets[k]) \in Unlinked /\ orphanedAssets[k].locked}

\* C8: when unlinkSync throws on an orphan, the run has ended uncaught at
\* that call; the orphans before it in listing order are gone from the
\* assets directory, the orphan itself and the orphans after it are still
\* there, and no orphan after it was passed to unlinkSync or reported.
C8_DeletionIsFailFast ==
    \A k \in FailedAt :
        /\ pc = "done"
        /\ status = "uncaught"
        /\ calls[Len(calls)] = [op |-> "unlinkSync", path |-> PathOf(orphanedAssets[k])]
        /\ \A j \in 1..(k - 1) : orphanedAssets[j] \notin Range(fs[assetsPath])
        /\ \A j \in k..Len(orphanedAssets) :
              /\ orphanedAssets[j] \in Range(fs[assetsPath])
              /\ j > k => /\ PathOf(orphanedAssets[j]) \notin Unlinked
                          /\ RemovingLine(orphanedAssets[j]) \notin OutLines
        /\ \A i, j \in 1..Len(existingAssets) :
              (i < j /\ existingAssets[i] \in Range(orphanedAssets)
                     /\ existingAssets[j] \in Range(orphanedAssets))
                  => \E a, b \in 1..Len(orphanedAssets) :
                        a < b /\ orphanedAssets[a] = existingAssets[i]
                              /\ orphanedAssets[b] = existingAssets[j]

\* C8 witness: unlinkSync threw on the second of three orphans.
C8_Witness ==
    /\ FailedAt = {2}
    /\ Len(orphanedAssets) = 3
    /\ status = "uncaught"
    /\ Cardinality(Unlinked) = 2

\* The directory that contains path p: p without its last "/" and what
\* follows it.
Containing(p) ==
    LET n == CHOOSE k \in 1..Len(p) :
                 /\ SubSeq(p, k, k) = "/"
                 /\ \A j \in (k + 1)..Len(p) : SubSeq(p, j, j) # "/"
    IN  SubSeq(p, 1, n - 1)

Listed == Called("readdirSync")

IsCountLine(l) ==
    \/ l = "No ophaned assets found."
    \/ \E n \in 1..Len(existingAssets) :
          l \in {"[" \o ToString(n) \o "] orphaned asset found.",
                 "[" \o ToString(n) \o "] orphaned assets found."}

\* C9: the directory listed is the text of --assets= when given, else the
\* manifest's directory joined with assets; existsSync is never called on
\* it; when it does not exist the run has ended uncaught at the listing,
\* with no count line written and the file system as it was.
C9_AssetsDirectory ==
    Listed =>
        /\ assetsPath = IF Given("assets") THEN GivenText("assets")
                        ELSE Containing(foundManifestPath) \o "/assets"
        /\ assetsPath \notin Probed
        /\ assetsPath \notin DOMAIN fsStart =>
              /\ pc = "done"
              /\ status = "uncaught"
              /\ calls[Len(calls)] = [op |-> "readdirSync", path |-> assetsPath]
              /\ \A l \in OutLines : ~IsCountLine(l)
              /\ fs = fsStart

\* C9 witness: an explicit assets directory, other than the one derived
\* from the manifest, that does not exist.
C9_Witness ==
    /\ Listed
    /\ Given("assets")
    /\ assetsPath # Containing(foundManifestPath) \o "/assets"
    /\ assetsPath \notin DOMAIN fsStart
    /\ Containing(foundManifestPath) \o "/assets" \in DOMAIN fsStart
    /\ status = "uncaught"

C10_WitnessMissingManifest ==
    /\ prev.mode = "quiet"
    /\ pc = "done"
    /\ status = "exit1"
    /\ prev.out # <<>>

----------------------------------------------------------------------------
(* The lines that count and name the orphans. *)

SingularLine(n) == "[" \o ToString(n) \o "] orphaned asset found."

PluralLine(n) == "[" \o ToString(n) \o "] orphaned assets found."

\* The counts the run has reported.
ReportedCounts ==
    {n \in 0..Len(existingAssets) :
        \/ n = 0 /\ "No ophaned assets found." \in OutLines
        \/ SingularLine(n) \in OutLines
        \/ PluralLine(n) \in OutLines}

IsOrphanLine(l) ==
    \E e \in Range(existingAssets) : l \in {WouldRemoveLine(e), RemovingLine(e)}

\* The positions of out that hold a line about one orphan.
OrphanLines == {i \in 1..Len(out) : IsOrphanLine(out[i].line)}

\* The positions of out that hold a line about the number of orphans.
CountLines == {i \in 1..Len(out) : IsCountLine(out[i].line)}

CountIsReported ==
    LET n == Len(orphanedAssets)
    IN  /\ (\E k \in 1..Len(existingAssets) : SingularLine(k) \in OutLines) <=> n = 1
        /\ n >= 2 => PluralLine(n) \in OutLines
        /\ n = 0 => SingularLine(1) \notin OutLines /\ OrphanLines = {}
        /\ Completed => \A c \in ReportedCounts : c = Cardinality(OrphanLines)

\* C13 as stated: once the orphans are detected, a singular line is written
\* if and only if there is exactly one orphan, the plural line with the
\* exact count is written for two or more, nothing says 1 and no orphan is
\* named for zero, and on a completed run the reported count is the number
\* of lines that name an orphan.
C13_CountIsAlwaysReported == Detected => CountIsReported

\* C13: unless --quiet is given, in which case no line is written at all,
\* once the orphans are detected exactly one count line is written, it comes
\* before every line that names an orphan, it is singular if and only if
\* there is exactly one orphan and plural with the exact count for two or
\* more, nothing says 1 and no orphan is named for zero, and on a completed
\* run the reported count is the number of lines that name an orphan.
C13_CountIsReportedUnlessQuiet ==
    Detected =>
        IF Quiet
        THEN out = <<>>
        ELSE /\ CountIsReported
             /\ Cardinality(CountLines) = 1
             /\ ReportedCounts = {Len(orphanedAssets)}
             /\ \A i \in OrphanLines : \A j \in CountLines : j < i
             /\ Completed => Cardinality(OrphanLines) = Len(orphanedAssets)

\* C13 witness: a run that is not quiet has completed after naming two or
\* more orphans.
C13_Witness ==
    /\ Completed
    /\ ~Quiet
    /\ Len(orphanedAssets) >= 2
    /\ PluralLine(Len(orphanedAssets)) \in OutLines
    /\ Cardinality(OrphanLines) = Len(orphanedAssets)

\* C13 witness for the singular line: exactly one orphan was reported.
C13_WitnessSingular ==
    /\ Completed
    /\ ~Quiet
    /\ Len(orphanedAssets) = 1
    /\ SingularLine(1) \in OutLines

\* C13 witness for no orphan.
C13_WitnessNone ==
    /\ Completed
    /\ ~Quiet
    /\ Len(orphanedAssets) = 0
    /\ "No ophaned assets found." \in OutLines

----------------------------------------------------------------------------
(* src/index.ts: the plugin.  srylius(config) resolves the configuration,  *)
(* builds the main plugin and the reload plugins.  Optional fields are     *)
(* records with a defined flag; values of several types carry their type.  *)

Def(v) == [defined |-> TRUE, value |-> v]

\* The first character of a string that is not empty, and the rest.
First(s) == SubSeq(s, 1, 1)

Rest(s) == IF Len(s) = 1 THEN "" ELSE SubSeq(s, 2, Len(s))

Last(s) == SubSeq(s, Len(s), Len(s))

Front(s) == IF Len(s) = 1 THEN "" ELSE SubSeq(s, 1, Len(s) - 1)

RECURSIVE StripStart(_, _)
\* s without its leading run of the character c.
StripStart(s, c) == IF Len(s) > 0 /\ First(s) = c THEN StripStart(Rest(s), c) ELSE s

RECURSIVE StripEnd(_, _)
\* s without its trailing run of the character c.
StripEnd(s, c) == IF Len(s) > 0 /\ Last(s) = c THEN StripEnd(Front(s), c) ELSE s

\* String.prototype.trim, for the white space " "
trim(s) == StripEnd(StripStart(s, " "), " ")

\* replace(/^\/+/, '')
StripLeadingSlashes(s) == StripStart(s, "/")

\* replace(/\/+$/, '')
StripTrailingSlashes(s) == StripEnd(s, "/")

RECURSIVE CollapseSlashes(_)
\* Every run of "/" becomes one "/".
CollapseSlashes(s) ==
    IF Len(s) < 2 THEN s
    ELSE IF First(s) = "/" /\ First(Rest(s)) = "/" THEN CollapseSlashes(Rest(s))
    ELSE First(s) \o CollapseSlashes(Rest(s))

\* path.join(a, b) for two segments that are not empty and hold no "." or
\* ".." segment: the segments joined by "/" and normalised.
join(a, b) == CollapseSlashes(a \o "/" \o b)

----------------------------------------------------------------------------
(* The values of the configuration. *)

\* input and ssr: a string or an array of strings.
NoInput == [type |-> "undefined", items |-> <<>>]

InputString(s) == [type |-> "string", items |-> <<s>>]

InputArray(items) == [type |-> "array", items |-> items]

\* An element of a refresh array or of paths: a string, or a RefreshConfig
\* with its paths.
PathItem(s) == [string |-> TRUE, s |-> s, paths |-> <<>>]

ConfigItem(paths) == [string |-> FALSE, s |-> "", paths |-> paths]

PathItems(texts) == [i \in 1..Len(texts) |-> PathItem(texts[i])]

\* refresh: absent, a boolean, a string, a RefreshConfig, or an array.
NoRefresh == [type |-> "undefined", flag |-> FALSE, items |-> <<>>]

RefreshBoolean(b) == [type |-> "boolean", flag |-> b, items |-> <<>>]

RefreshString(s) == [type |-> "string", flag |-> FALSE, items |-> <<PathItem(s)>>]

RefreshObject(paths) == [type |-> "object", flag |-> FALSE, items |-> PathItems(paths)]

RefreshArray(items) == [type |-> "array", flag |-> FALSE, items |-> items]

\* detectTls: absent, null, or a host name.
NoTls == [type |-> "undefined", value |-> ""]

NullTls == [type |-> "null", value |-> ""]

\* transformOnServe: absent, or a function known by its name.
NoFunction == [type |-> "undefined", name |-> ""]

Function(name) == [type |-> "function", name |-> name]

\* A PluginConfig object.
Object(input, publicDirectory, buildDirectory, ssrOutputDirectory, refresh, hotFile) ==
    [kind               |-> "object",
     input              |-> input,
     publicDirectory    |-> publicDirectory,
     buildDirectory     |-> buildDirectory,
     ssr                |-> NoInput,
     ssrOutputDirectory |-> ssrOutputDirectory,
     refresh            |-> refresh,
     hotFile            |-> hotFile,
     detectTls          |-> NoTls,
     transformOnServe   |-> NoFunction]

\* Lines 346-349: a string or an array is the input and the ssr input.
FromInput(input) == [Object(input, Undefined, Undefined, Undefined, NoRefresh, Undefined)
                        EXCEPT !.ssr = input]

\* Lines 123-134: the globs whose directory exists.
RefreshGlobs ==
    <<"app/View/Pages/**", "app/View/Layouts/**", "app/View/Levdwire/**",
      "app/View/Components/**", "resources/languages/**", "resources/themes/**",
      "resources/plugins/**", "resources/views/**", "routes/**", "system/**">>

\* The directories of the project the plugin is loaded in.
ProjectDirectories == {"app/View/Pages/", "resources/views/", "routes/"}

\* path.replace(/\*\*$/, '')
WithoutGlob(p) == IF EndsWith(p, "**") THEN SubSeq(p, 1, Len(p) - 2) ELSE p

GlobExists(p) == WithoutGlob(p) \in ProjectDirectories

refreshPaths == SelectSeq(RefreshGlobs, GlobExists)

----------------------------------------------------------------------------
(* resolvePluginConfig, lines 338-405. *)

\* a ?? b for optional strings
Coalesce(a, b) == IF a.defined THEN a ELSE Def(b)

\* Lines 358-360: publicDirectory is trimmed and loses its leading slashes.
NormalisePublic(d) == IF d.defined THEN Def(StripLeadingSlashes(trim(d.value))) ELSE d

\* Lines 370-372 and 382-385: trimmed, without leading and trailing slashes.
NormaliseDirectory(d) ==
    IF d.defined THEN Def(StripTrailingSlashes(StripLeadingSlashes(trim(d.value)))) ELSE d

\* Lines 362-365 and 374-377: a directory that became the empty string.
IsEmptyDirectory(d) == d.defined /\ d.value = ""

\* Lines 388-391: refresh true is one RefreshConfig over refreshPaths.
NormaliseRefresh(r) ==
    IF r.type = "boolean" /\ r.flag
    THEN RefreshArray(<<ConfigItem(PathItems(refreshPaths))>>)
    ELSE r

resolvePluginConfig(c) ==
    IF c.kind = "undefined" THEN Thrown("@srylius/vite : Missing configuration.")
    ELSE IF c.input.type = "undefined"
    THEN Thrown("@srylius/vite : Missing configuration for \"input\".")
    ELSE LET publicDirectory    == NormalisePublic(c.publicDirectory)
             buildDirectory     == NormaliseDirectory(c.buildDirectory)
             ssrOutputDirectory == NormaliseDirectory(c.ssrOutputDirectory)
             refresh            == NormaliseRefresh(c.refresh)
         IN  IF IsEmptyDirectory(publicDirectory)
             THEN Thrown("@srylius/vite : publicDirectory must be a subdirectory. Ex. : 'public'.")
             ELSE IF IsEmptyDirectory(buildDirectory)
             THEN Thrown("srylius-vite-plugin: buildDirectory must be a subdirectory. E.g. 'build'.")
             ELSE Returned(
                 [input              |-> c.input,
                  publicDirectory    |-> Coalesce(publicDirectory, "public"),
                  buildDirectory     |-> Coalesce(buildDirectory, "bundle"),
                  ssr                |-> IF c.ssr.type = "undefined" THEN c.input ELSE c.ssr,
                  ssrOutputDirectory |-> Coalesce(ssrOutputDirectory, "bootstrap/ssr"),
                  refresh            |-> IF refresh.type = "undefined"
                                         THEN RefreshBoolean(FALSE) ELSE refresh,
                  hotFile            |-> Coalesce(c.hotFile,
                                             join(Coalesce(publicDirectory, "public").value,
                                                  "srylius.hot")),
                  detectTls          |-> IF c.detectTls.type = "undefined"
                                         THEN NullTls ELSE c.detectTls,
                  transformOnServe   |-> IF c.transformOnServe.type = "undefined"
                                         THEN Function("identity") ELSE c.transformOnServe])

----------------------------------------------------------------------------
(* resolveReloadConfig, lines 465-500, and srylius, lines 143-155. *)

\* Lines 473-488: the refresh value as an array of RefreshConfig.
ReloadEntries(refresh) ==
    LET wrapped == IF refresh.type = "string" THEN <<ConfigItem(refresh.items)>>
                   ELSE IF refresh.type = "object" THEN <<ConfigItem(refresh.items)>>
                   ELSE refresh.items
    IN  IF \E i \in 1..Len(wrapped) : wrapped[i].string
        THEN <<ConfigItem(wrapped)>>
        ELSE wrapped

\* The names bound where the callback of flatMap runs (lines 491-499): its
\* parameter and local, the parameter of resolveReloadConfig, and the
\* imports and declarations of the module.
CallbackScope ==
    {"rConfig", "plugin", "config",
     "fs", "fileURLToPath", "path", "colors", "loadEnv", "fullReload",
     "exitHandlersBound", "refreshPaths", "srylius", "resolveSryliusPlugin",
     "resolvePluginConfig", "resolveBase", "resolveInput", "resolveOutputDirectory",
     "resolveReloadConfig", "resolveDevServerUrl", "isIpv6", "resolveNoExternal",
     "version", "versionSrylius", "dirname"}

\* Line 492: the plugin fullReload returns for one RefreshConfig.
fullReload(rConfig) == [name |-> "vite-plugin-full-reload", paths |-> rConfig.paths]

\* Lines 491-499: one turn of the callback.  Line 496 reads the name c.
ReloadPlugin(rConfig) ==
    IF "c" \in CallbackScope
    THEN Returned(fullReload(rConfig))
    ELSE Thrown("ReferenceError: c is not defined")

resolveReloadConfig(resolved) ==
    IF resolved.refresh.type = "boolean" THEN Returned(<<>>)
    ELSE LET entries == ReloadEntries(resolved.refresh)
             turns   == [i \in 1..Len(entries) |-> ReloadPlugin(entries[i])]
             threw   == {i \in 1..Len(turns) : turns[i].state = "thrown"}
         IN  IF threw # {}
             THEN turns[CHOOSE i \in threw : \A j \in threw : i <= j]
             ELSE Returned([i \in 1..Len(turns) |-> turns[i].value])

\* Lines 164-327: the main plugin.
resolveSryliusPlugin(resolved) == [name |-> "srylius", paths |-> <<>>]

\* Lines 143-155.
srylius(c) ==
    LET resolved == resolvePluginConfig(c)
    IN  IF resolved.state = "thrown" THEN resolved
        ELSE LET reload == resolveReloadConfig(resolved.value)
             IN  IF reload.state = "thrown" THEN reload
                 ELSE Returned(<<resolveSryliusPlugin(resolved.value)>> \o reload.value)

----------------------------------------------------------------------------
(* The calls of srylius the model makes. *)

\* Directory names: plain, with slashes and white space around them, and
\* made of slashes and white space only.
DirectoryTexts == {"public", "/public", "dist/", " /dist/ ", "", " ", "/", " // ", "/ /"}

Directories == {Undefined} \cup {Def(t) : t \in DirectoryTexts}

Inputs == {NoInput, InputString("app.js"), InputArray(<<"app.js", "app.css">>)}

Refreshes ==
    {NoRefresh, RefreshBoolean(FALSE), RefreshBoolean(TRUE),
     RefreshString("routes/**"),
     RefreshObject(<<"routes/**">>),
     RefreshArray(<<>>),
     RefreshArray(PathItems(<<"routes/**", "system/**">>)),
     RefreshArray(<<ConfigItem(PathItems(<<"routes/**">>))>>),
     RefreshArray(<<ConfigItem(PathItems(<<"routes/**">>)),
                    ConfigItem(PathItems(<<"system/**", "app/**">>))>>)}

HotFiles == {Undefined, Def("storage/srylius.hot")}

\* Every directory with every other one, for one input and no refresh;
\* every input, refresh and hot file for a few directories.
Configs ==
    {NoConfig, FromInput(InputString("app.js")), FromInput(InputArray(<<"app.js", "app.css">>))}
    \cup {Object(InputString("app.js"), p, b, s, NoRefresh, Undefined) :
            p \in Directories, b \in Directories, s \in Directories}
    \cup {Object(i, Undefined, b, s, r, h) :
            i \in Inputs, b \in {Undefined, Def("/")}, s \in {Undefined, Def("/")},
            r \in Refreshes, h \in HotFiles}

InitConfig ==
    /\ config \in Configs
    /\ pluginConfig = Pending
    /\ plugins = Pending
    /\ ServeIdle
    /\ argv = <<"node", "clean.js">>
    /\ fs = << >>
    /\ fsStart = fs
    /\ pc = "done"
    /\ status = "exit0"
    /\ out = <<>>
    /\ calls = <<>>
    /\ foundManifestPath = ""
    /\ isSsr = FALSE
    /\ manifestAssets = <<>>
    /\ assetsPath = ""
    /\ existingAssets = <<>>
    /\ orphanedAssets = <<>>
    /\ index = 0
    /\ run = MaxRuns
    /\ prev = NoPrev

\* srylius(config) is called: line 145, then lines 148-154.
CallSrylius ==
    /\ plugins.state = "pending"
    /\ pluginConfig' = resolvePluginConfig(config)
    /\ plugins' = srylius(config)
    /\ UNCHANGED <<config, serveVars, cleanVars>>

NextConfig == CallSrylius

SpecConfig == InitConfig /\ [][NextConfig]_vars

----------------------------------------------------------------------------
(* Properties of srylius(config). *)

\* srylius(config) has been called.
SryliusCalled == plugins.state # "pending"

\* The text is empty once trimmed and stripped of its leading and trailing
\* slashes: white space, then slashes, then white space.
InvalidDirectoryText(t) ==
    \E a \in 0..Len(t) : \E b \in a..Len(t) :
        \A k \in 1..Len(t) :
            SubSeq(t, k, k) = IF k <= a \/ k > b THEN " " ELSE "/"

InvalidDirectory(d) == d.defined /\ InvalidDirectoryText(d.value)

\* The configuration is missing, has no input, or names an invalid directory.
InvalidConfig ==
    \/ config.kind = "undefined"
    \/ /\ config.kind = "object"
       /\ \/ config.input.type = "undefined"
          \/ InvalidDirectory(config.publicDirectory)
          \/ InvalidDirectory(config.buildDirectory)
          \/ InvalidDirectory(config.ssrOutputDirectory)

EveryFieldDefined(r) ==
    /\ r.input.type # "undefined"
    /\ r.publicDirectory.defined
    /\ r.buildDirectory.defined
    /\ r.ssr.type # "undefined"
    /\ r.ssrOutputDirectory.defined
    /\ r.refresh.type # "undefined"
    /\ r.hotFile.defined
    /\ r.detectTls.type # "undefined"
    /\ r.transformOnServe.type # "undefined"

NoLeadingSlash(d) == d.value = "" \/ SubSeq(d.value, 1, 1) # "/"

\* C12 as stated: resolvePluginConfig throws, and returns nothing, when
\* the configuration is missing, has no input, or has a publicDirectory,
\* buildDirectory or ssrOutputDirectory that is empty once trimmed and
\* stripped of its slashes; for every other configuration it returns one
\* whose fields are all defined and whose directories start with no slash.
C12_InvalidConfigThrows ==
    SryliusCalled =>
        IF InvalidConfig
        THEN pluginConfig.state = "thrown"
        ELSE /\ pluginConfig.state = "returned"
             /\ EveryFieldDefined(pluginConfig.value)
             /\ NoLeadingSlash(pluginConfig.value.publicDirectory)
             /\ NoLeadingSlash(pluginConfig.value.buildDirectory)
             /\ NoLeadingSlash(pluginConfig.value.ssrOutputDirectory)

\* C12 failing call: an ssrOutputDirectory made of slashes only, in a
\* configuration that is otherwise valid, is resolved to the empty string.
C12_Witness ==
    /\ SryliusCalled
    /\ config.kind = "object"
    /\ config.ssrOutputDirectory = Def("/")
    /\ pluginConfig.state = "returned"
    /\ pluginConfig.value.ssrOutputDirectory = Def("")

\* The number of reload plugins the refresh value stands for: none for
\* false or absent, one for true, a string, an array of strings or a
\* RefreshConfig, one per element for an array of RefreshConfig.
ExpectedReloads(r) ==
    IF r.type = "undefined" \/ (r.type = "boolean" /\ ~r.flag) THEN 0
    ELSE IF r.type \in {"boolean", "string", "object"} THEN 1
    ELSE IF \E i \in 1..Len(r.items) : r.items[i].string THEN 1
    ELSE Len(r.items)

\* The paths the k-th reload plugin watches.
ExpectedPaths(r, k) ==
    IF r.type = "boolean" THEN PathItems(refreshPaths)
    ELSE IF r.type \in {"string", "object"} THEN r.items
    ELSE IF \E i \in 1..Len(r.items) : r.items[i].string THEN r.items
    ELSE r.items[k].paths

\* C15 as stated: for a valid configuration srylius(config) returns the
\* main plugin followed by one full-reload plugin per refresh entry, over
\* the paths of that entry, and none when refresh is false or absent; it
\* throws for no refresh value.
C15_ReturnsMainThenReloadPlugins ==
    (SryliusCalled /\ pluginConfig.state = "returned") =>
        /\ plugins.state = "returned"
        /\ Len(plugins.value) = 1 + ExpectedReloads(config.refresh)
        /\ plugins.value[1].name = "srylius"
        /\ \A k \in 1..ExpectedReloads(config.refresh) :
              /\ plugins.value[k + 1].name = "vite-plugin-full-reload"
              /\ plugins.value[k + 1].paths = ExpectedPaths(config.refresh, k)

\* C15 failing call: with refresh true and a valid configuration the call
\* of srylius ends with the ReferenceError of line 496.
C15_Witness ==
    /\ SryliusCalled
    /\ config.kind = "object"
    /\ config.refresh = RefreshBoolean(TRUE)
    /\ pluginConfig.state = "returned"
    /\ plugins = Thrown("ReferenceError: c is not defined")

----------------------------------------------------------------------------
(* The dev-server process: the hooks of the main plugin, lines 164-327.    *)
(* Every instance is one call of resolveSryliusPlugin: its pluginConfig    *)
(* and its three variables of lines 165-167.  The flag of line 116 and     *)
(* the listeners on process belong to the process, not to an instance.     *)

Placeholder == "__srylius_vite_placeholder__"

\* s without its first n characters.
Drop(s, n) == IF n >= Len(s) THEN "" ELSE SubSeq(s, n + 1, Len(s))

RECURSIVE ReplaceAll(_, _, _)
\* s.replace(/p/g, r) for a literal p
ReplaceAll(s, p, r) ==
    IF Len(s) < Len(p) THEN s
    ELSE IF SubSeq(s, 1, Len(p)) = p THEN r \o ReplaceAll(Drop(s, Len(p)), p, r)
    ELSE First(s) \o ReplaceAll(Rest(s), p, r)

\* The text a value takes inside a string: String(undefined) is "undefined".
Text(v) == IF v.defined THEN v.value ELSE "undefined"

\* replace(/\/$/, '')
WithoutTrailingSlash(s) == IF Len(s) > 0 /\ Last(s) = "/" THEN Front(s) ELSE s

\* server.httpServer.address(): an AddressInfo, or the path of a pipe.
AddressInfo(family, address, port) ==
    [object |-> TRUE, family |-> family, address |-> address, port |-> port]

PipeName(name) == [object |-> FALSE, family |-> "", address |-> name, port |-> 0]

\* Lines 265-266: typeof x === 'object'
isAddressInfo(x) == x.object

\* Lines 552-555.
isIpv6(address) == address.family = "IPv6"

\* server.hmr: absent, or an object with protocol, host and clientPort.
NoHmr == [object |-> FALSE, protocol |-> "", host |-> Undefined, clientPort |-> 0]

Hmr(protocol, host, clientPort) ==
    [object |-> TRUE, protocol |-> protocol, host |-> host, clientPort |-> clientPort]

\* Lines 510-543.
resolveDevServerUrl(address, resolved) ==
    LET hmr            == resolved.hmr
        clientProtocol == IF hmr.object /\ hmr.protocol # ""
                          THEN Def(IF hmr.protocol = "wss" THEN "https" ELSE "http")
                          ELSE Undefined
        serverProtocol == IF resolved.https THEN "https" ELSE "http"
        protocol       == Coalesce(clientProtocol, serverProtocol).value
        configHmrHost  == IF hmr.object THEN hmr.host ELSE Undefined
        serverAddress  == IF isIpv6(address) THEN "[" \o address.address \o "]"
                          ELSE address.address
        host           == IF configHmrHost.defined THEN configHmrHost.value
                          ELSE Coalesce(resolved.host, serverAddress).value
        port           == IF hmr.object /\ hmr.clientPort # 0 THEN hmr.clientPort
                          ELSE address.port
    IN  protocol \o "://" \o host \o ":" \o ToString(port)

\* Lines 270-271: the origin of the user configuration when it is truthy.
DevServerUrl(user, address, resolved) ==
    IF user.origin.defined /\ user.origin.value # ""
    THEN user.origin.value
    ELSE resolveDevServerUrl(address, resolved)

\* Line 274: the text written to the hot file.
HotFileText(url, resolved) == url \o WithoutTrailingSlash(resolved.base)

\* pluginConfig.transformOnServe(code, url): the default returns the code;
\* "banner" stands for a function of the user that uses both arguments.
transformOnServe(f, code, url) ==
    IF f.name = "identity" THEN code ELSE "/* " \o Text(url) \o " */" \o code

\* fs.writeFileSync
writeFileSync(files, path, text) ==
    [p \in DOMAIN files \cup {path} |-> IF p = path THEN text ELSE files[p]]

\* fs.rmSync of a file that exists
rmSync(files, path) == [p \in DOMAIN files \ {path} |-> files[p]]

\* Lines 296-302: the listener of 'exit' that captured hotFile.
clean(files, hotFile) == IF hotFile \in DOMAIN files THEN rmSync(files, hotFile) ELSE files

RECURSIVE EmitExit(_, _)
\* The listeners of 'exit' run in the order they were registered.
EmitExit(files, listeners) ==
    IF listeners = <<>> THEN files
    ELSE EmitExit(clean(files, Head(listeners)), Tail(listeners))

----------------------------------------------------------------------------
(* What the host passes to the hooks.  One process has one command, one    *)
(* user configuration and one resolved configuration, passed to the hooks  *)
(* of every instance.                                                      *)

\* The user configuration of the config hook: server.origin.
UserConfigs == {[set |-> TRUE, origin |-> o] : o \in {Undefined, Def(""), Def("http://dev.test")}}

NoUserConfig == [set |-> FALSE, origin |-> Undefined]

\* The resolved configuration of configResolved, less its command.
ResolvedConfigs ==
    {[base |-> "/", https |-> FALSE, host |-> Undefined, hmr |-> NoHmr],
     [base |-> "/app/", https |-> TRUE, host |-> Def("app.test"), hmr |-> NoHmr],
     [base |-> "/", https |-> FALSE, host |-> Undefined,
      hmr |-> Hmr("wss", Def("hmr.test"), 443)]}

NoResolvedConfig == [set |-> FALSE, command |-> "", base |-> "", https |-> FALSE,
                     host |-> Undefined, hmr |-> NoHmr]

WithCommand(resolved, command) ==
    [set |-> TRUE, command |-> command, base |-> resolved.base, https |-> resolved.https,
     host |-> resolved.host, hmr |-> resolved.hmr]

Addresses ==
    {AddressInfo("IPv4", "127.0.0.1", 5173), AddressInfo("IPv6", "::1", 5174),
     PipeName("/tmp/vite.sock")}

\* The code of the modules: the pieces around each placeholder.
CodePieces == {<<"let a = 1">>, <<"const url = '", "'">>, <<"", "/a;", "/b">>}

RECURSIVE JoinWith(_, _)
\* The pieces with sep between them.
JoinWith(pieces, sep) ==
    IF Len(pieces) = 1 THEN pieces[1]
    ELSE pieces[1] \o sep \o JoinWith(Tail(pieces), sep)

\* One instance: the closure of one call of resolveSryliusPlugin(pluginConfig).
Instance(resolved) ==
    [pluginConfig     |-> resolved,
     userConfig       |-> NoUserConfig,
     resolvedConfig   |-> NoResolvedConfig,
     viteDevServerUrl |-> Undefined,
     server           |-> "none",
     middleware       |-> FALSE,
     written          |-> FALSE]

\* The configurations of a process that loads the plugin twice: the second
\* instance keeps the hot file of the first or names another one.
ServeConfigs ==
    {<<Object(InputString("app.js"), Undefined, Undefined, Undefined, NoRefresh, Undefined), c>> :
        c \in {Object(InputString("app.js"), Undefined, Undefined, Undefined, NoRefresh, h) :
                 h \in HotFiles}
              \cup {[Object(InputString("app.js"), Def("/web/"), Undefined, Undefined,
                            RefreshBoolean(FALSE), Undefined)
                        EXCEPT !.transformOnServe = Function("banner")]}}

InitServe ==
    /\ \E cs \in ServeConfigs :
          instances = [i \in 1..Len(cs) |-> Instance(resolvePluginConfig(cs[i]).value)]
    /\ exitHandlersBound = FALSE
    /\ handlers = NoHandlers
    /\ \E command \in {"serve", "build"}, user \in UserConfigs, resolved \in ResolvedConfigs :
          process = [state |-> "running", signal |-> "none", command |-> command,
                     userConfig |-> user, resolvedConfig |-> WithCommand(resolved, command)]
    /\ hotFiles = << >>
    /\ transformed = NoTransform
    /\ ConfigIdle
    /\ argv = <<"node", "clean.js">>
    /\ fs = << >>
    /\ fsStart = fs
    /\ pc = "done"
    /\ status = "exit0"
    /\ out = <<>>
    /\ calls = <<>>
    /\ foundManifestPath = ""
    /\ isSsr = FALSE
    /\ manifestAssets = <<>>
    /\ assetsPath = ""
    /\ existingAssets = <<>>
    /\ orphanedAssets = <<>>
    /\ index = 0
    /\ run = MaxRuns
    /\ prev = NoPrev

Running == process.state = "running"

----------------------------------------------------------------------------
(* The hooks. *)

\* Lines 191-192: the config hook keeps the user configuration.
Config(i) ==
    /\ Running
    /\ ~instances[i].userConfig.set
    /\ instances' = [instances EXCEPT ![i].userConfig = process.userConfig]
    /\ UNCHANGED <<exitHandlersBound, handlers, process, hotFiles, transformed>>
    /\ UNCHANGED <<configVars, cleanVars>>

\* Lines 236-238: configResolved keeps the resolved configuration.
ConfigResolved(i) ==
    /\ Running
    /\ instances[i].userConfig.set
    /\ ~instances[i].resolvedConfig.set
    /\ instances' = [instances EXCEPT ![i].resolvedConfig = process.resolvedConfig]
    /\ UNCHANGED <<exitHandlersBound, handlers, process, hotFiles, transformed>>
    /\ UNCHANGED <<configVars, cleanVars>>

\* Lines 241-250: the transform hook on the code of one module.
Transform(i) ==
    /\ Running
    /\ instances[i].resolvedConfig.set
    /\ process.command = "serve" => instances[i].server # "none"
    /\ \E pieces \in CodePieces :
          LET code == JoinWith(pieces, Placeholder)
              url  == instances[i].viteDevServerUrl
              f    == instances[i].pluginConfig.transformOnServe
          IN  transformed' =
                  IF instances[i].resolvedConfig.command = "serve"
                  THEN [instance |-> i, pieces |-> pieces, url |-> url,
                        result |-> Def(transformOnServe(f,
                                           ReplaceAll(code, Placeholder, Text(url)), url))]
                  ELSE [instance |-> i, pieces |-> pieces, url |-> url,
                        result |-> Undefined]
    /\ UNCHANGED <<instances, exitHandlersBound, handlers, process, hotFiles>>
    /\ UNCHANGED <<configVars, cleanVars>>

\* Lines 253-327: configureServer for a new server, with an http server or
\* in middleware mode (httpServer is null).  The listener of 'listening'
\* is registered on the http server; the listeners on process are
\* registered when the flag of line 116 is not set.
ConfigureServer(i) ==
    /\ Running
    /\ process.command = "serve"
    /\ instances[i].resolvedConfig.set
    /\ \E middleware \in BOOLEAN :
          instances' = [instances EXCEPT ![i].server = "created",
                                         ![i].middleware = middleware]
    /\ IF ~exitHandlersBound
       THEN /\ handlers' = [exit    |-> Append(handlers.exit, instances[i].pluginConfig.hotFile.value),
                            SIGINT  |-> handlers.SIGINT + 1,
                            SIGTERM |-> handlers.SIGTERM + 1,
                            SIGHUP  |-> handlers.SIGHUP + 1]
            /\ exitHandlersBound' = TRUE
       ELSE UNCHANGED <<handlers, exitHandlersBound>>
    /\ UNCHANGED <<process, hotFiles, transformed>>
    /\ UNCHANGED <<configVars, cleanVars>>

\* Lines 261-287: the http server of the instance begins to listen and the
\* listener registered once on it runs.
Listening(i) ==
    /\ Running
    /\ instances[i].server = "created"
    /\ ~instances[i].middleware
    /\ \E address \in Addresses :
          IF isAddressInfo(address)
          THEN LET url == DevServerUrl(instances[i].userConfig, address,
                                       instances[i].resolvedConfig)
               IN  /\ instances' = [instances EXCEPT ![i].server = "listening",
                                                     ![i].viteDevServerUrl = Def(url),
                                                     ![i].written = TRUE]
                   /\ hotFiles' = writeFileSync(hotFiles,
                                      instances[i].pluginConfig.hotFile.value,
                                      HotFileText(url, instances[i].resolvedConfig))
          ELSE /\ instances' = [instances EXCEPT ![i].server = "listening"]
               /\ UNCHANGED hotFiles
    /\ UNCHANGED <<exitHandlersBound, handlers, process, transformed>>
    /\ UNCHANGED <<configVars, cleanVars>>

\* Lines 305-310: a termination signal.  A listener of the signal calls
\* process.exit(), which emits 'exit'; without a listener the signal ends
\* the process and 'exit' is not emitted.
Signal(sig) ==
    /\ Running
    /\ process' = [process EXCEPT !.state = "exited", !.signal = sig]
    /\ hotFiles' = IF handlers[sig] > 0 THEN EmitExit(hotFiles, handlers.exit) ELSE hotFiles
    /\ UNCHANGED <<instances, exitHandlersBound, handlers, transformed>>
    /\ UNCHANGED <<configVars, cleanVars>>

NextServe ==
    \/ \E i \in 1..Len(instances) : Config(i)
    \/ \E i \in 1..Len(instances) : ConfigResolved(i)
    \/ \E i \in 1..Len(instances) : ConfigureServer(i)
    \/ \E i \in 1..Len(instances) : Listening(i)
    \/ \E i \in 1..Len(instances) : Transform(i)
    \/ \E sig \in {"SIGINT", "SIGTERM", "SIGHUP"} : Signal(sig)

SpecServe == InitServe /\ [][NextServe]_vars

----------------------------------------------------------------------------
(* Properties of the dev-server process. *)

TerminationSignals == {"SIGINT", "SIGTERM", "SIGHUP"}

\* The process has exited after a termination signal.
ExitedOnSignal == process.state = "exited" /\ process.signal \in TerminationSignals

HotFileOf(i) == instances[i].pluginConfig.hotFile.value

\* The instance wrote its hot file: its server was listening on an address.
WroteHotFile(i) == instances[i].written

\* C11 as stated: once the process has exited after SIGINT, SIGTERM or
\* SIGHUP, the hot file of every instance whose server was listening is
\* gone; at every moment at most one listener of 'exit' and of each signal
\* is registered on the process.
C11_HotFilesRemovedOnSignal ==
    /\ ExitedOnSignal =>
          \A i \in 1..Len(instances) : WroteHotFile(i) => HotFileOf(i) \notin DOMAIN hotFiles
    /\ Len(handlers.exit) <= 1
    /\ \A sig \in TerminationSignals : handlers[sig] <= 1

\* C11 failing run: both instances were configured and listening, the
\* process exited on a signal, and the hot file of the second instance,
\* which is not the file the listener of 'exit' captured, is still there.
C11_Witness ==
    /\ ExitedOnSignal
    /\ WroteHotFile(1)
    /\ WroteHotFile(2)
    /\ HotFileOf(1) \notin DOMAIN hotFiles
    /\ HotFileOf(2) \in DOMAIN hotFiles
    /\ handlers.exit = <<HotFileOf(1)>>

\* The hook has run and this is what it did.
TransformRan == transformed.instance # 0

\* What a call of the hook must do in the state it runs in: in serve mode
\* the URL is set, the hot file of the instance holds it, and the result is
\* the code with the URL in place of every placeholder, passed through
\* transformOnServe with that URL; in build mode there is no result.
TransformDoes(call) ==
    LET instance == instances[call.instance]
    IN  IF process.command = "serve"
        THEN /\ call.url.defined
             /\ HotFileOf(call.instance) \in DOMAIN hotFiles
             /\ hotFiles[HotFileOf(call.instance)] =
                    call.url.value \o WithoutTrailingSlash(process.resolvedConfig.base)
             /\ call.result = Def(transformOnServe(instance.pluginConfig.transformOnServe,
                                      JoinWith(call.pieces, call.url.value), call.url))
        ELSE call.result = Undefined

\* C14 as stated: every call of the transform hook, wherever it falls
\* among the other hooks and the 'listening' events, puts the URL that the
\* hot file holds in place of every placeholder, never an unset URL, and
\* applies transformOnServe with that URL; in build mode it returns nothing.
C14_TransformUsesPersistedUrl ==
    [][transformed' # transformed => TransformDoes(transformed')]_vars

\* C14 failing run: in serve mode the hook ran on code with placeholders
\* before any 'listening' event of its instance; the URL was unset and the
\* text "undefined" took the place of every placeholder.
C14_Witness ==
    /\ TransformRan
    /\ process.command = "serve"
    /\ ~transformed.url.defined
    /\ Len(transformed.pieces) = 3
    /\ instances[transformed.instance].server = "created"
    /\ transformed.result = Def(JoinWith(transformed.pieces, "undefined"))

====
